---- MODULE Spec2Model ----
(***************************************************************************)
(* A model of src/multi-agent-patterns/coordinator.py: the keyword         *)
(* classifier, the Subagent object (execute / terminate) and the           *)
(* CoordinatorAgent that routes a request, charges tokens and drives one   *)
(* Subagent through create / execute / terminate.                          *)
(*                                                                         *)
(* Representation.  A Python str that is searched for keywords is a        *)
(* sequence of one-character strings; Str turns it into a TLA+ string      *)
(* where the code interpolates it into an f-string.  A dict is a record    *)
(* (a function from keys to values), so "key in dict" is key \in DOMAIN.   *)
(* json.dumps(d, indent=2) is modelled by the dict d it serialises: the    *)
(* keys and values of the object are what the caller reads back.           *)
(* time.time() is the variable clock, in whole seconds.                    *)
(***************************************************************************)
EXTENDS Integers, Sequences, FiniteSets, TLC

VARIABLES
    clock,              \* time.time()
    subagents,          \* every Subagent object created so far, by identity
    trace,              \* history: per Subagent, the calls made on it
    total_tokens_used,  \* CoordinatorAgent.total_tokens_used
    pc,                 \* where the current process_request call stands
    user_message,       \* process_request's argument
    task_type,          \* process_request's local task_type
    subagent,           \* _handle_with_subagent's local subagent (0: none)
    result,             \* outcome of subagent.execute in the try block
    response,           \* the value process_request returns
    call,               \* history: the counter at entry and the branch taken
    returned,           \* history: one record per finished process_request
    stats,              \* the dict get_stats() returned since the last request
    registry,           \* the module-level dict SUBAGENT_TEMPLATES
    threads             \* callers running process_request at the same time

vars == <<clock, subagents, trace, total_tokens_used, pc, user_message,
          task_type, subagent, result, response, call, returned, stats, registry,
          threads>>

-----------------------------------------------------------------------------
(* Bounds of the model. *)

MaxWords == 2       \* words per message given to the classifier
MaxCalls == 2       \* process_request calls on one CoordinatorAgent
MaxOps == 3         \* execute/terminate calls a direct caller makes per object
MaxClock == 62      \* the clock stops advancing here
MaxAlteredCalls == 1 \* process_request calls under an altered registry

-----------------------------------------------------------------------------
(* Text. *)

RECURSIVE Str(_)
Str(s) == IF s = <<>> THEN "" ELSE Head(s) \o Str(Tail(s))

UpperToLower ==
    [c \in {"A","B","C","D","E","F","G","H","I","J","K","L","M",
            "N","O","P","Q","R","S","T","U","V","W","X","Y","Z"} |->
        CASE c = "A" -> "a" [] c = "B" -> "b" [] c = "C" -> "c" [] c = "D" -> "d"
          [] c = "E" -> "e" [] c = "F" -> "f" [] c = "G" -> "g" [] c = "H" -> "h"
          [] c = "I" -> "i" [] c = "J" -> "j" [] c = "K" -> "k" [] c = "L" -> "l"
          [] c = "M" -> "m" [] c = "N" -> "n" [] c = "O" -> "o" [] c = "P" -> "p"
          [] c = "Q" -> "q" [] c = "R" -> "r" [] c = "S" -> "s" [] c = "T" -> "t"
          [] c = "U" -> "u" [] c = "V" -> "v" [] c = "W" -> "w" [] c = "X" -> "x"
          [] c = "Y" -> "y" [] c = "Z" -> "z"]

\* str.lower()
lower(s) ==
    [i \in 1..Len(s) |-> IF s[i] \in DOMAIN UpperToLower THEN UpperToLower[s[i]] ELSE s[i]]

\* word in text (substring test)
Contains(text, word) ==
    \E i \in 1..(Len(text) - Len(word) + 1) : SubSeq(text, i, i + Len(word) - 1) = word

\* any(word in text for word in words)
AnyWordIn(words, text) == \E k \in 1..Len(words) : Contains(text, words[k])

FinanceWords ==
    << <<"r","e","v","e","n","u","e">>, <<"f","i","n","a","n","c","e">>,
       <<"m","o","n","e","y">>, <<"p","r","o","f","i","t">> >>

DeveloperWords ==
    << <<"c","o","d","e">>, <<"c","o","m","m","i","t">>, <<"p","r">>,
       <<"b","u","g">>, <<"d","e","p","l","o","y">> >>

ContentWords ==
    << <<"t","w","e","e","t">>, <<"p","o","s","t">>,
       <<"c","o","n","t","e","n","t">>, <<"w","r","i","t","e">> >>

SimpleWords ==
    << <<"h","i">>, <<"h","e","l","l","o">>, <<"h","e","l","p">>,
       <<"w","h","a","t"," ","c","a","n"," ","y","o","u">> >>

\* A variant of _classify_task that tests the developer keywords first.
ClassifyDeveloperFirst(message) ==
    LET message_lower == lower(message) IN
    IF AnyWordIn(DeveloperWords, message_lower) THEN "developer"
    ELSE IF AnyWordIn(FinanceWords, message_lower) THEN "finance"
    ELSE IF AnyWordIn(ContentWords, message_lower) THEN "content"
    ELSE IF AnyWordIn(SimpleWords, message_lower) THEN "simple"
    ELSE "unknown"

_classify_task(message) ==
    LET message_lower == lower(message) IN
    IF AnyWordIn(FinanceWords, message_lower) THEN "finance"
    ELSE IF AnyWordIn(DeveloperWords, message_lower) THEN "developer"
    ELSE IF AnyWordIn(ContentWords, message_lower) THEN "content"
    ELSE IF AnyWordIn(SimpleWords, message_lower) THEN "simple"
    ELSE "unknown"

-----------------------------------------------------------------------------
(* Messages. *)

\* The words messages are made of: keywords of each category in mixed case,
\* words that hold a keyword of another category inside them, and words that
\* hold none.
Vocabulary ==
    { <<"R","e","v","e","n","u","e">>,                   \* finance
      <<"p","r","o","f","i","t">>,                       \* finance, holds "pr"
      <<"C","o","m","m","i","t">>,                       \* developer
      <<"b","u","g">>,                                   \* developer
      <<"T","w","e","e","t">>,                           \* content
      <<"P","O","S","T">>,                               \* content
      <<"H","i">>,                                       \* simple
      <<"W","h","a","t"," ","c","a","n"," ","y","o","u">>, \* simple
      <<"t","h","i","s">>,                               \* holds "hi"
      <<"a","s","d","k","j","a","s","d">>,               \* none
      <<"Q","1">> }                                      \* none

RECURSIVE MessagesOf(_)
MessagesOf(n) ==
    IF n <= 1 THEN Vocabulary
    ELSE LET shorter == MessagesOf(n - 1) IN
         shorter \cup { m \o <<" ">> \o w : m \in shorter, w \in Vocabulary }

Messages == MessagesOf(MaxWords)

\* The requests given to process_request: one or two per route.
Requests ==
    { <<"R","e","v","e","n","u","e">>,
      <<"C","o","m","m","i","t">>,
      <<"T","w","e","e","t">>,
      <<"H","i">>,
      <<"Q","1">> }

-----------------------------------------------------------------------------
(* Subagent templates. *)

SUBAGENT_TEMPLATES ==
    [t \in {"finance", "developer", "content"} |->
        CASE t = "finance" ->
               [role |-> "Finance Specialist",
                context_files |-> <<"rules/finance.md", "rules/reporting.md">>,
                data_sources |-> <<"transactions", "invoices">>,
                instructions |-> "You are a finance specialist agent. - Use accrual accounting - Report in USD - Include pending items - Format: structured data + brief summary",
                max_tokens |-> 5000]
          [] t = "developer" ->
               [role |-> "Development Specialist",
                context_files |-> <<"rules/code-style.md", "ARCHITECTURE.md">>,
                data_sources |-> <<"git_log", "open_issues">>,
                instructions |-> "You are a development specialist agent. - Review code for patterns and quality - Suggest improvements - Check against style guide - Format: technical summary + recommendations",
                max_tokens |-> 8000]
          [] t = "content" ->
               [role |-> "Content Specialist",
                context_files |-> <<"brand-voice.md", "content-guidelines.md">>,
                data_sources |-> <<"recent_posts", "engagement_metrics">>,
                instructions |-> "You are a content specialist agent. - Follow brand voice - Optimize for engagement - Keep it authentic - Format: ready-to-publish content",
                max_tokens |-> 4000]]

\* A variant of _fetch_relevant_data that fetches the first source only.
FetchFirstSourceOnly(sources) ==
    [s \in {sources[1]} |-> "[Sample data from " \o s \o "]"]

\* A profile for one more category, as an entry added to SUBAGENT_TEMPLATES.
LegalProfile ==
    [role |-> "Legal Specialist",
     context_files |-> <<"rules/legal.md">>,
     data_sources |-> <<"contracts", "case_law">>,
     instructions |-> "You are a legal specialist agent. - Cite the clause - Format: findings + risks",
     max_tokens |-> 6000]

\* A request that names the added category.
LegalRequest == <<"L","e","g","a","l"," ","r","e","v","i","e","w">>

\* SUBAGENT_TEMPLATES with one entry deleted, and with one entry added.
WithoutCategory(c) ==
    [t \in DOMAIN SUBAGENT_TEMPLATES \ {c} |-> SUBAGENT_TEMPLATES[t]]
WithCategory(c, profile) ==
    [t \in DOMAIN SUBAGENT_TEMPLATES \cup {c} |->
        IF t = c THEN profile ELSE SUBAGENT_TEMPLATES[t]]

AlteredRegistries == { WithoutCategory("content"), WithCategory("legal", LegalProfile) }

\* {source: f"[Sample data from {source}]" for source in sources}
_fetch_relevant_data(sources) ==
    [s \in {sources[k] : k \in 1..Len(sources)} |-> "[Sample data from " \o s \o "]"]

\* The SubagentContext _handle_with_subagent builds from a template.
BuildContext(agent_type, task) ==
    LET template == registry[agent_type] IN
    [role |-> template.role,
     task |-> task,
     instructions |-> template.instructions,
     data |-> _fetch_relevant_data(template.data_sources),
     max_tokens |-> template.max_tokens]

-----------------------------------------------------------------------------
(* Subagent. *)

\* What a call did: it returned a value or raised an exception.
NoValue == [completed |-> FALSE]
Return(v) == [kind |-> "return", type |-> "", msg |-> "", value |-> v]
Raise(t, m) == [kind |-> "raise", type |-> t, msg |-> m, value |-> NoValue]

\* What the work behind execute may do in place of returning a result: the
\* simulation never raises, the model call that replaces it may.
NoFault == [type |-> "", msg |-> ""]
Faults == { [type |-> "ConnectionError", msg |-> "backend unavailable"] }

\* Subagent.__init__
NewSubagent(context, now) ==
    [context |-> context, start_time |-> now, is_terminated |-> FALSE]

_simulate_execution(self, fault) ==
    IF fault # NoFault THEN Raise(fault.type, fault.msg)
    ELSE Return([role |-> self.context.role,
                 task |-> self.context.task,
                 result |-> "[Simulated result for: " \o Str(self.context.task) \o "]",
                 tokens_used |-> self.context.max_tokens \div 2,
                 completed |-> TRUE])

\* A variant of execute that checks the timeout before the terminated flag.
ExecuteTimeoutFirst(self, now, timeout, fault) ==
    [self |-> self,
     outcome |->
        IF now - self.start_time > timeout
        THEN Raise("TimeoutError", "Subagent exceeded " \o ToString(timeout) \o "s timeout")
        ELSE IF self.is_terminated
        THEN Raise("RuntimeError", "Subagent already terminated")
        ELSE _simulate_execution(self, fault)]

\* A variant of execute that times out when the elapsed time equals the timeout.
ExecuteTimeoutAtEqual(self, now, timeout, fault) ==
    [self |-> self,
     outcome |->
        IF self.is_terminated
        THEN Raise("RuntimeError", "Subagent already terminated")
        ELSE IF now - self.start_time >= timeout
        THEN Raise("TimeoutError", "Subagent exceeded " \o ToString(timeout) \o "s timeout")
        ELSE _simulate_execution(self, fault)]

\* A variant of execute that marks the Subagent terminated once it has run.
ExecuteMarksTerminated(self, now, timeout, fault) ==
    LET outcome ==
            IF self.is_terminated
            THEN Raise("RuntimeError", "Subagent already terminated")
            ELSE IF now - self.start_time > timeout
            THEN Raise("TimeoutError", "Subagent exceeded " \o ToString(timeout) \o "s timeout")
            ELSE _simulate_execution(self, fault)
    IN [self |-> IF outcome.kind = "return"
                 THEN [self EXCEPT !.is_terminated = TRUE] ELSE self,
        outcome |-> outcome]

\* Subagent.execute: the object after the call and what the call did.
execute(self, now, timeout, fault) ==
    [self |-> self,
     outcome |->
        IF self.is_terminated
        THEN Raise("RuntimeError", "Subagent already terminated")
        ELSE IF now - self.start_time > timeout
        THEN Raise("TimeoutError", "Subagent exceeded " \o ToString(timeout) \o "s timeout")
        ELSE _simulate_execution(self, fault)]

\* A variant of terminate that flips the flag.
TerminateToggle(self) ==
    [self |-> [self EXCEPT !.is_terminated = ~@],
     outcome |-> Return(NoValue)]

\* Subagent.terminate
terminate(self) ==
    [self |-> [self EXCEPT !.is_terminated = TRUE],
     outcome |-> Return(NoValue)]

\* History of the calls made on one Subagent: how many of each, and the last.
NoEvent ==
    [op |-> "init", before_terminated |-> FALSE, executes_before |-> 0,
     elapsed |-> 0, timeout |-> 0, outcome |-> Return(NoValue), unchanged |-> TRUE]
NewTrace == [n_execute |-> 0, n_terminate |-> 0, last |-> NoEvent]

Executed(tr, before, now, timeout, r) ==
    [n_execute |-> tr.n_execute + 1,
     n_terminate |-> tr.n_terminate,
     last |-> [op |-> "execute", before_terminated |-> before.is_terminated,
               executes_before |-> tr.n_execute,
               elapsed |-> now - before.start_time, timeout |-> timeout,
               outcome |-> r.outcome, unchanged |-> (r.self = before)]]

Terminated(tr, before, now, r) ==
    [n_execute |-> tr.n_execute,
     n_terminate |-> tr.n_terminate + 1,
     last |-> [op |-> "terminate", before_terminated |-> before.is_terminated,
               executes_before |-> tr.n_execute,
               elapsed |-> now - before.start_time, timeout |-> 0,
               outcome |-> r.outcome, unchanged |-> (r.self = before)]]

-----------------------------------------------------------------------------
(* Time. *)

SubagentTimeout == 30   \* subagent.execute(timeout=30)

\* The clock moves between any two steps, by the timeout or by one second more.
TickSizes == {SubagentTimeout, SubagentTimeout + 1}

Tick ==
    /\ \E d \in TickSizes :
         /\ clock + d <= MaxClock
         /\ clock' = clock + d
    /\ UNCHANGED <<registry, threads, subagents, trace, total_tokens_used, pc, user_message,
                   task_type, subagent, result, response, call, returned, stats>>

-----------------------------------------------------------------------------
(* Initial state: a new CoordinatorAgent, no Subagent yet. *)

NoResponse == [none |-> TRUE]
NoStats == [none |-> TRUE]
NoCall == [entry_tokens |-> 0, branch |-> ""]
NoThreads == <<>>

Init ==
    /\ clock = 0
    /\ subagents = <<>>
    /\ trace = <<>>
    /\ total_tokens_used = 0
    /\ pc = "idle"
    /\ user_message = <<>>
    /\ task_type = ""
    /\ subagent = 0
    /\ result = Return(NoValue)
    /\ response = NoResponse
    /\ call = NoCall
    /\ returned = <<>>
    /\ stats = NoStats
    /\ registry = SUBAGENT_TEMPLATES
    /\ threads = NoThreads

coordinatorVars ==
    <<total_tokens_used, pc, user_message, task_type, subagent, result,
      response, call, returned, stats>>

-----------------------------------------------------------------------------
(* A caller that uses one Subagent object directly.  Subagent objects share *)
(* no state, so one object shows what every object does.                    *)

DirectTimeouts == {0, SubagentTimeout}

SubCreate ==
    /\ subagents = <<>>
    /\ \E agent_type \in DOMAIN registry, task \in Requests :
         /\ _classify_task(task) = agent_type
         /\ subagents' = <<NewSubagent(BuildContext(agent_type, task), clock)>>
    /\ trace' = <<NewTrace>>
    /\ UNCHANGED <<registry, threads, clock, coordinatorVars>>

SubExecute ==
    /\ \E i \in DOMAIN subagents, timeout \in DirectTimeouts, fault \in Faults \cup {NoFault} :
         /\ trace[i].n_execute + trace[i].n_terminate < MaxOps
         /\ LET r == execute(subagents[i], clock, timeout, fault) IN
            /\ subagents' = [subagents EXCEPT ![i] = r.self]
            /\ trace' = [trace EXCEPT ![i] = Executed(@, subagents[i], clock, timeout, r)]
    /\ UNCHANGED <<registry, threads, clock, coordinatorVars>>

SubTerminate ==
    /\ \E i \in DOMAIN subagents :
         /\ trace[i].n_execute + trace[i].n_terminate < MaxOps
         /\ LET r == terminate(subagents[i]) IN
            /\ subagents' = [subagents EXCEPT ![i] = r.self]
            /\ trace' = [trace EXCEPT ![i] = Terminated(@, subagents[i], clock, r)]
    /\ UNCHANGED <<registry, threads, clock, coordinatorVars>>

SubNext == SubCreate \/ SubExecute \/ SubTerminate \/ Tick

SubSpec == Init /\ [][SubNext]_vars

-----------------------------------------------------------------------------
(* CoordinatorAgent. *)

context_size == 2048        \* self.context_size

\* self.context_size // 4, charged on every call
BaseCharge == context_size \div 4

\* dict.get(key, default)
Get(dict, key, default) == IF key \in DOMAIN dict THEN dict[key] ELSE default

\* A variant of the routing without the inline branch.
RouteNoInline(t) ==
    IF t \in DOMAIN registry THEN "handle_with_subagent"
    ELSE "handle_unknown"

\* A variant that tests the category against the three names, not the registry.
RouteByName(t) ==
    IF t = "simple" THEN "handle_simple"
    ELSE IF t \in {"finance", "developer", "content"} THEN "handle_with_subagent"
    ELSE "handle_unknown"

\* The if / elif / else of process_request.
Route(t) ==
    IF t = "simple" THEN "handle_simple"
    ELSE IF t \in DOMAIN registry THEN "handle_with_subagent"
    ELSE "handle_unknown"

\* A variant with "except Exception" written before "except TimeoutError".
ClauseExceptionFirst(outcome) ==
    IF outcome.kind = "return" THEN "success" ELSE "except_exception"

\* The except clause that takes what execute did.
Clause(outcome) ==
    IF outcome.kind = "return" THEN "success"
    ELSE IF outcome.type = "TimeoutError" THEN "except_timeout"
    ELSE "except_exception"

SimpleResponse(message) ==
    [handler |-> "main_agent",
     response |-> "Quick answer to: " \o Str(message),
     tokens_used |-> context_size \div 4 + 100]

UnknownResponse(message) ==
    [handler |-> "main_agent",
     response |-> "I'm not sure how to handle: " \o Str(message),
     suggestion |-> "Try asking about finance, development, or content tasks",
     tokens_used |-> context_size \div 4 + 200]

\* A variant of the success response that reports the running counter.
SuccessResponseCumulative(agent_type, value, subagent_tokens) ==
    [handler |-> agent_type \o "_subagent",
     role |-> registry[agent_type].role,
     result |-> value.result,
     tokens_used |-> total_tokens_used + subagent_tokens,
     subagent_terminated |-> TRUE]

SuccessResponse(agent_type, value, subagent_tokens) ==
    [handler |-> agent_type \o "_subagent",
     role |-> registry[agent_type].role,
     result |-> value.result,
     tokens_used |-> context_size \div 4 + subagent_tokens,
     subagent_terminated |-> TRUE]

\* A variant of the timeout response without the fallback text.
TimeoutResponseNoFallback == [error |-> "Subagent timeout"]

TimeoutResponse ==
    [error |-> "Subagent timeout",
     fallback |-> "Task took too long, please try again or break into smaller steps"]

\* A variant of the error response that hides the exception's message.
ErrorResponseGeneric(e) ==
    [error |-> "Subagent error",
     fallback |-> "Something went wrong, please rephrase or try again"]

ErrorResponse(e) ==
    [error |-> e.msg,
     fallback |-> "Something went wrong, please rephrase or try again"]

\* What the history keeps of a finished call.
CallRecord(resp, branch, exit_tokens) ==
    [user_message |-> user_message, task_type |-> task_type, branch |-> branch,
     entry_tokens |-> call.entry_tokens, exit_tokens |-> exit_tokens,
     response |-> resp, result |-> result, subagent |-> subagent]

heapVars == <<subagents, trace>>

\* A registry other than the reference one allows fewer calls, and is also
\* given the request that names the added category.
CallLimit == IF registry = SUBAGENT_TEMPLATES THEN MaxCalls ELSE MaxAlteredCalls
Inputs == IF registry = SUBAGENT_TEMPLATES THEN Requests ELSE Requests \cup {LegalRequest}

\* process_request: classify, charge the base, pick the handler.
ProcessRequest ==
    /\ pc = "idle"
    /\ Len(returned) < CallLimit
    /\ \E message \in Inputs :
         /\ user_message' = message
         /\ task_type' = _classify_task(message)
    /\ total_tokens_used' = total_tokens_used + BaseCharge
    /\ pc' = Route(task_type')
    /\ subagent' = 0
    /\ result' = Return(NoValue)
    /\ response' = NoResponse
    /\ call' = [entry_tokens |-> total_tokens_used, branch |-> ""]
    /\ stats' = NoStats
    /\ UNCHANGED <<registry, threads, clock, heapVars, returned>>

HandleSimpleTask ==
    /\ pc = "handle_simple"
    /\ total_tokens_used' = total_tokens_used + 100
    /\ response' = SimpleResponse(user_message)
    /\ call' = [call EXCEPT !.branch = "inline"]
    /\ returned' = Append(returned, CallRecord(response', "inline", total_tokens_used'))
    /\ pc' = "idle"
    /\ UNCHANGED <<registry, threads, clock, heapVars, user_message, task_type, subagent, result, stats>>

HandleUnknownTask ==
    /\ pc = "handle_unknown"
    /\ total_tokens_used' = total_tokens_used + 200
    /\ response' = UnknownResponse(user_message)
    /\ call' = [call EXCEPT !.branch = "unknown"]
    /\ returned' = Append(returned, CallRecord(response', "unknown", total_tokens_used'))
    /\ pc' = "idle"
    /\ UNCHANGED <<registry, threads, clock, heapVars, user_message, task_type, subagent, result, stats>>

\* _handle_with_subagent up to "subagent = Subagent(context)".
\* SUBAGENT_TEMPLATES[agent_type] on a missing key raises KeyError, outside the
\* try block, so the exception leaves process_request.
SpawnSubagent ==
    /\ pc = "handle_with_subagent"
    /\ IF task_type \in DOMAIN registry
       THEN /\ subagents' = Append(subagents,
                    NewSubagent(BuildContext(task_type, user_message), clock))
            /\ trace' = Append(trace, NewTrace)
            /\ subagent' = Len(subagents) + 1
            /\ pc' = "try"
            /\ UNCHANGED result
       ELSE /\ result' = Raise("KeyError", task_type)
            /\ pc' = "raised"
            /\ UNCHANGED <<heapVars, subagent>>
    /\ UNCHANGED <<registry, threads, clock, total_tokens_used, user_message, task_type,
                   response, call, returned, stats>>

\* A variant that releases the Subagent before it runs it.
TryExecuteAfterTerminate ==
    /\ pc = "try"
    /\ \E fault \in Faults \cup {NoFault} :
         LET t == terminate(subagents[subagent])
             r == execute(t.self, clock, SubagentTimeout, fault) IN
         /\ subagents' = [subagents EXCEPT ![subagent] = r.self]
         /\ trace' = [trace EXCEPT ![subagent] =
                         Executed(Terminated(@, subagents[subagent], clock, t),
                                  t.self, clock, SubagentTimeout, r)]
         /\ result' = r.outcome
         /\ pc' = Clause(r.outcome)
    /\ UNCHANGED <<registry, threads, clock, total_tokens_used, user_message, task_type, subagent,
                   response, call, returned, stats>>

\* result = subagent.execute(timeout=30)
TryExecute ==
    /\ pc = "try"
    /\ \E fault \in Faults \cup {NoFault} :
         LET r == execute(subagents[subagent], clock, SubagentTimeout, fault) IN
         /\ subagents' = [subagents EXCEPT ![subagent] = r.self]
         /\ trace' = [trace EXCEPT ![subagent] =
                         Executed(@, subagents[subagent], clock, SubagentTimeout, r)]
         /\ result' = r.outcome
         /\ pc' = Clause(r.outcome)
    /\ UNCHANGED <<registry, threads, clock, total_tokens_used, user_message, task_type, subagent,
                   response, call, returned, stats>>

\* A variant of the try block that does not add the subagent's tokens.
OnSuccessNoCharge ==
    /\ pc = "success"
    /\ response' = SuccessResponse(task_type, result.value,
                                   Get(result.value, "tokens_used", 2000))
    /\ call' = [call EXCEPT !.branch = "success"]
    /\ pc' = "finally"
    /\ UNCHANGED <<registry, threads, clock, heapVars, total_tokens_used, user_message, task_type,
                   subagent, result, returned, stats>>

\* The rest of the try block: track tokens, build the return value.
OnSuccess ==
    /\ pc = "success"
    /\ LET subagent_tokens == Get(result.value, "tokens_used", 2000) IN
         /\ total_tokens_used' = total_tokens_used + subagent_tokens
         /\ response' = SuccessResponse(task_type, result.value, subagent_tokens)
    /\ call' = [call EXCEPT !.branch = "success"]
    /\ pc' = "finally"
    /\ UNCHANGED <<registry, threads, clock, heapVars, user_message, task_type, subagent, result,
                   returned, stats>>

\* A variant of the timeout clause that runs the try block once more.
OnTimeoutRetry ==
    /\ pc = "except_timeout"
    /\ IF trace[subagent].n_execute < 2
       THEN /\ pc' = "try"
            /\ UNCHANGED <<response, call>>
       ELSE /\ response' = TimeoutResponse
            /\ call' = [call EXCEPT !.branch = "timeout"]
            /\ pc' = "finally"
    /\ UNCHANGED <<registry, threads, clock, heapVars, total_tokens_used, user_message, task_type,
                   subagent, result, returned, stats>>

\* except TimeoutError
OnTimeout ==
    /\ pc = "except_timeout"
    /\ response' = TimeoutResponse
    /\ call' = [call EXCEPT !.branch = "timeout"]
    /\ pc' = "finally"
    /\ UNCHANGED <<registry, threads, clock, heapVars, total_tokens_used, user_message, task_type,
                   subagent, result, returned, stats>>

\* except Exception as e
OnException ==
    /\ pc = "except_exception"
    /\ response' = ErrorResponse(result)
    /\ call' = [call EXCEPT !.branch = "fault"]
    /\ pc' = "finally"
    /\ UNCHANGED <<registry, threads, clock, heapVars, total_tokens_used, user_message, task_type,
                   subagent, result, returned, stats>>

\* A variant where terminate() ends the try block instead of a finally.
FinallyOnSuccessOnly ==
    /\ pc = "finally"
    /\ IF call.branch = "success"
       THEN LET r == terminate(subagents[subagent]) IN
            /\ subagents' = [subagents EXCEPT ![subagent] = r.self]
            /\ trace' = [trace EXCEPT ![subagent] =
                            Terminated(@, subagents[subagent], clock, r)]
       ELSE UNCHANGED heapVars
    /\ returned' = Append(returned, CallRecord(response, call.branch, total_tokens_used))
    /\ pc' = "idle"
    /\ UNCHANGED <<registry, threads, clock, total_tokens_used, user_message, task_type, subagent,
                   result, response, call, stats>>

\* finally: subagent.terminate(), then the pending return takes place.
Finally ==
    /\ pc = "finally"
    /\ LET r == terminate(subagents[subagent]) IN
         /\ subagents' = [subagents EXCEPT ![subagent] = r.self]
         /\ trace' = [trace EXCEPT ![subagent] =
                         Terminated(@, subagents[subagent], clock, r)]
    /\ returned' = Append(returned, CallRecord(response, call.branch, total_tokens_used))
    /\ pc' = "idle"
    /\ UNCHANGED <<registry, threads, clock, total_tokens_used, user_message, task_type, subagent,
                   result, response, call, stats>>

\* get_stats(); estimated_cost is in millionths of a dollar ($5 per million).
get_stats ==
    [total_tokens_used |-> total_tokens_used,
     estimated_cost |-> total_tokens_used * 5]

\* A variant of get_stats that starts a new accounting period.
GetStatsAndReset ==
    /\ pc = "idle"
    /\ stats' = get_stats
    /\ total_tokens_used' = 0
    /\ UNCHANGED <<registry, threads, clock, heapVars, pc, user_message, task_type,
                   subagent, result, response, call, returned>>

GetStats ==
    /\ pc = "idle"
    /\ stats' = get_stats
    /\ UNCHANGED <<registry, threads, clock, heapVars, total_tokens_used, pc, user_message, task_type,
                   subagent, result, response, call, returned>>

Next ==
    \/ ProcessRequest
    \/ HandleSimpleTask
    \/ HandleUnknownTask
    \/ SpawnSubagent
    \/ TryExecute
    \/ OnSuccess
    \/ OnTimeout
    \/ OnException
    \/ Finally
    \/ GetStats
    \/ Tick

Spec == Init /\ [][Next]_vars

-----------------------------------------------------------------------------
(* The coordinator run with SUBAGENT_TEMPLATES altered: an entry deleted or *)
(* an entry added, nothing else changed.                                    *)

RegistryInit ==
    /\ clock = 0
    /\ subagents = <<>>
    /\ trace = <<>>
    /\ total_tokens_used = 0
    /\ pc = "idle"
    /\ user_message = <<>>
    /\ task_type = ""
    /\ subagent = 0
    /\ result = Return(NoValue)
    /\ response = NoResponse
    /\ call = NoCall
    /\ returned = <<>>
    /\ stats = NoStats
    /\ registry \in AlteredRegistries
    /\ threads = NoThreads

RegistrySpec == RegistryInit /\ [][Next]_vars

-----------------------------------------------------------------------------
(* Two callers run process_request on one CoordinatorAgent at the same time. *)
(* self.total_tokens_used += n is a read of the attribute, an addition and a *)
(* write of the attribute, with no lock around them: each caller's read and  *)
(* write are separate steps, and the steps of the two callers interleave.    *)

Threads == {"t1", "t2"}

\* A caller that has not called yet. loaded is the value its read of the
\* counter got; charged is history, the sum of what it has added.
NewThread ==
    [pc |-> "start", user_message |-> <<>>, task_type |-> "", loaded |-> 0,
     subagent |-> 0, result |-> Return(NoValue), charged |-> 0]

ConcInit ==
    /\ clock = 0
    /\ subagents = <<>>
    /\ trace = <<>>
    /\ total_tokens_used = 0
    /\ pc = "idle"
    /\ user_message = <<>>
    /\ task_type = ""
    /\ subagent = 0
    /\ result = Return(NoValue)
    /\ response = NoResponse
    /\ call = NoCall
    /\ returned = <<>>
    /\ stats = NoStats
    /\ registry = SUBAGENT_TEMPLATES
    /\ threads = [t \in Threads |-> NewThread]

coordinatorLocals ==
    <<pc, user_message, task_type, subagent, result, response, call, returned, stats>>

\* The four augmented assignments to self.total_tokens_used, by the place of
\* the caller that is about to read the counter.
Increments == {"base", "simple", "tokens", "unknown"}

\* The right-hand side of each augmented assignment.
Amount(self, increment) ==
    CASE increment = "base" -> BaseCharge
      [] increment = "simple" -> 100
      [] increment = "tokens" -> Get(self.result.value, "tokens_used", 2000)
      [] increment = "unknown" -> 200

\* Where the caller goes once the augmented assignment has stored its value.
AfterStore(self, increment) ==
    CASE increment = "base" ->
            (CASE Route(self.task_type) = "handle_simple" -> "load_simple"
               [] Route(self.task_type) = "handle_with_subagent" -> "spawn"
               [] Route(self.task_type) = "handle_unknown" -> "load_unknown")
      [] increment = "simple" -> "done"
      [] increment = "tokens" -> "finally"
      [] increment = "unknown" -> "done"

\* process_request is entered: the message is classified.
ThreadCall(t) ==
    /\ threads[t].pc = "start"
    /\ \E message \in Requests :
         threads' = [threads EXCEPT ![t].user_message = message,
                                    ![t].task_type = _classify_task(message),
                                    ![t].pc = "load_base"]
    /\ UNCHANGED <<registry, clock, heapVars, total_tokens_used, coordinatorLocals>>

\* The read of self.total_tokens_used that begins an augmented assignment.
ThreadLoad(t) ==
    /\ \E increment \in Increments :
         /\ threads[t].pc = "load_" \o increment
         /\ threads' = [threads EXCEPT ![t].loaded = total_tokens_used,
                                       ![t].pc = "store_" \o increment]
    /\ UNCHANGED <<registry, clock, heapVars, total_tokens_used, coordinatorLocals>>

\* The write that ends it: what was read plus the amount, whatever the
\* attribute holds by now.
ThreadStore(t) ==
    /\ \E increment \in Increments :
         /\ threads[t].pc = "store_" \o increment
         /\ total_tokens_used' = threads[t].loaded + Amount(threads[t], increment)
         /\ threads' = [threads EXCEPT
                           ![t].charged = @ + Amount(threads[t], increment),
                           ![t].pc = AfterStore(threads[t], increment)]
    /\ UNCHANGED <<registry, clock, heapVars, coordinatorLocals>>

\* _handle_with_subagent up to the try block: the caller's own Subagent.
ThreadSpawn(t) ==
    /\ threads[t].pc = "spawn"
    /\ subagents' = Append(subagents,
            NewSubagent(BuildContext(threads[t].task_type, threads[t].user_message),
                        clock))
    /\ trace' = Append(trace, NewTrace)
    /\ threads' = [threads EXCEPT ![t].subagent = Len(subagents) + 1,
                                  ![t].pc = "try"]
    /\ UNCHANGED <<registry, clock, total_tokens_used, coordinatorLocals>>

\* result = subagent.execute(timeout=30); neither except clause touches the
\* counter, so an exception leads straight to the finally block.
ThreadTry(t) ==
    /\ threads[t].pc = "try"
    /\ \E fault \in Faults \cup {NoFault} :
         LET i == threads[t].subagent
             r == execute(subagents[i], clock, SubagentTimeout, fault) IN
         /\ subagents' = [subagents EXCEPT ![i] = r.self]
         /\ trace' = [trace EXCEPT ![i] =
                         Executed(@, subagents[i], clock, SubagentTimeout, r)]
         /\ threads' = [threads EXCEPT
                           ![t].result = r.outcome,
                           ![t].pc = IF Clause(r.outcome) = "success"
                                     THEN "load_tokens" ELSE "finally"]
    /\ UNCHANGED <<registry, clock, total_tokens_used, coordinatorLocals>>

\* finally: subagent.terminate(), and process_request returns.
ThreadFinally(t) ==
    /\ threads[t].pc = "finally"
    /\ LET i == threads[t].subagent
           r == terminate(subagents[i]) IN
         /\ subagents' = [subagents EXCEPT ![i] = r.self]
         /\ trace' = [trace EXCEPT ![i] = Terminated(@, subagents[i], clock, r)]
    /\ threads' = [threads EXCEPT ![t].pc = "done"]
    /\ UNCHANGED <<registry, clock, total_tokens_used, coordinatorLocals>>

ConcNext ==
    \/ \E t \in Threads :
          \/ ThreadCall(t)
          \/ ThreadLoad(t)
          \/ ThreadStore(t)
          \/ ThreadSpawn(t)
          \/ ThreadTry(t)
          \/ ThreadFinally(t)
    \/ Tick

ConcSpec == ConcInit /\ [][ConcNext]_vars

-----------------------------------------------------------------------------
(* The classifier alone, on every message of the bounded set. *)

ClassifyInit ==
    /\ Init!1 /\ Init!2 /\ Init!3 /\ Init!4
    /\ pc = "classify"
    /\ user_message \in Messages
    /\ task_type = ""
    /\ subagent = 0
    /\ result = Return(NoValue)
    /\ response = NoResponse
    /\ call = NoCall
    /\ returned = <<>>
    /\ stats = NoStats
    /\ registry = SUBAGENT_TEMPLATES
    /\ threads = NoThreads

Classify ==
    /\ pc = "classify"
    /\ task_type' = _classify_task(user_message)
    /\ pc' = "classified"
    /\ UNCHANGED <<registry, threads, clock, heapVars, total_tokens_used, user_message, subagent,
                   result, response, call, returned, stats>>

ClassifyNext == Classify

ClassifySpec == ClassifyInit /\ [][ClassifyNext]_vars

-----------------------------------------------------------------------------
(* Properties. *)

Specialists == {"finance", "developer", "content"}

\* The calls that have returned, and the Subagent each one created (0: none).
Calls == DOMAIN returned
SubagentOf(k) == returned[k].subagent

\* C1: for every specialist dispatch of process_request, whatever execute did
\* (success, TimeoutError, another exception), terminate() has been called
\* exactly once on the created Subagent when process_request returns: never
\* zero times, never twice.
C1_TerminateExactlyOnce ==
    /\ \A k \in Calls :
         returned[k].task_type \in Specialists =>
            /\ SubagentOf(k) \in DOMAIN subagents
            /\ trace[SubagentOf(k)].n_terminate = 1
    /\ \A i \in DOMAIN subagents : trace[i].n_terminate <= 1

\* Two dispatches have returned, one after a timeout and one after a fault,
\* each with its Subagent terminated once.
C1_Witness ==
    \E j, k \in Calls :
        /\ returned[j].result.type = "TimeoutError"
        /\ returned[k].result.kind = "raise"
        /\ returned[k].result.type # "TimeoutError"
        /\ trace[SubagentOf(j)].n_terminate = 1
        /\ trace[SubagentOf(k)].n_terminate = 1

\* The charge of one call by the branch it took: base 512, plus 100 inline,
\* plus 200 unknown, plus the tokens the Subagent reported on success, plus
\* nothing after a timeout or a fault.
ChargeOf(rec) ==
    512 + CASE rec.branch = "inline" -> 100
            [] rec.branch = "unknown" -> 200
            [] rec.branch = "success" -> rec.result.value.tokens_used
            [] rec.branch \in {"timeout", "fault"} -> 0

RECURSIVE SumOfCharges(_)
SumOfCharges(recs) ==
    IF recs = <<>> THEN 0 ELSE ChargeOf(Head(recs)) + SumOfCharges(Tail(recs))

\* C2: after any sequence of K process_request calls on one CoordinatorAgent,
\* get_stats().total_tokens_used is the sum over the K calls of the charge of
\* the branch each call took.
C2_TotalIsSumOfCharges ==
    pc = "idle" => get_stats.total_tokens_used = SumOfCharges(returned)

\* Two calls have returned, a successful dispatch and a timed-out one.
C2_Witness ==
    /\ pc = "idle"
    /\ \E j, k \in Calls : returned[j].branch = "success" /\ returned[k].branch = "timeout"

\* The last call made on Subagent i, and the calls counted so far.
Last(i) == trace[i].last

AlreadyTerminated(outcome) ==
    /\ outcome.kind = "raise"
    /\ outcome.type = "RuntimeError"
    /\ outcome.msg = "Subagent already terminated"
    /\ outcome.value = NoValue

\* C3: an execute called after one earlier execute on the same Subagent,
\* terminated in between or not, fails with RuntimeError "Subagent already
\* terminated" and produces no result.
C3_SecondExecuteFails ==
    \A i \in DOMAIN subagents :
        (Last(i).op = "execute" /\ Last(i).executes_before >= 1) =>
            AlreadyTerminated(Last(i).outcome)

\* C4: once terminate() has been called on a Subagent, every later execute
\* fails with RuntimeError "Subagent already terminated" and returns no
\* result, whatever the timeout and the time elapsed: also when the Subagent
\* is past its timeout.
C4_ExecuteAfterTerminateFails ==
    \A i \in DOMAIN subagents :
        (Last(i).op = "execute" /\ trace[i].n_terminate >= 1) =>
            AlreadyTerminated(Last(i).outcome)

\* An execute on a terminated Subagent that is also past its timeout.
C4_Witness ==
    \E i \in DOMAIN subagents :
        /\ Last(i).op = "execute"
        /\ trace[i].n_terminate >= 1
        /\ Last(i).elapsed > Last(i).timeout

\* C5: terminate() never raises and leaves is_terminated true from every
\* state of the Subagent; a terminate on a terminated Subagent changes
\* nothing, so N calls leave what one call leaves; and once terminate() has
\* been called no later call, execute or terminate, makes is_terminated false.
C5_TerminateIdempotent ==
    \A i \in DOMAIN subagents :
        /\ trace[i].n_terminate >= 1 => subagents[i].is_terminated
        /\ Last(i).op = "terminate" =>
              /\ Last(i).outcome.kind = "return"
              /\ Last(i).before_terminated => Last(i).unchanged

\* terminate() called a second time, after an execute.
C5_Witness ==
    \E i \in DOMAIN subagents :
        /\ trace[i].n_terminate = 2
        /\ trace[i].n_execute = 1
        /\ Last(i).op = "terminate"
        /\ Last(i).before_terminated

\* What a call added to the cumulative token counter.
Growth(rec) == rec.exit_tokens - rec.entry_tokens

TimedOut(rec) == rec.result.kind = "raise" /\ rec.result.type = "TimeoutError"
Faulted(rec) == rec.result.kind = "raise" /\ rec.result.type # "TimeoutError"

\* C6: when the dispatched Subagent's execute fails with TimeoutError,
\* process_request returns (it raises nothing) a response whose error is
\* "Subagent timeout" with a fallback text, and the cumulative token counter
\* grows by the base charge, 512, and no more during that call.
C6_TimeoutResponse ==
    /\ \A k \in Calls :
         TimedOut(returned[k]) =>
            /\ DOMAIN returned[k].response = {"error", "fallback"}
            /\ returned[k].response.error = "Subagent timeout"
            /\ returned[k].response.fallback # ""
            /\ Growth(returned[k]) = 512
    /\ (pc = "finally" /\ TimedOut([result |-> result])) =>
            /\ response.error = "Subagent timeout"
            /\ total_tokens_used = call.entry_tokens + 512

\* A call has returned after its Subagent timed out.
C6_Witness ==
    \E k \in Calls :
        /\ TimedOut(returned[k])
        /\ trace[SubagentOf(k)].last.elapsed > 30

\* C7: when the dispatched Subagent's execute fails with a fault other than
\* TimeoutError, process_request returns (it does not propagate the fault) a
\* response that carries the fault's message and a fallback text, and the
\* cumulative token counter grows by the base charge, 512, and no more.
C7_FaultResponse ==
    /\ \A k \in Calls :
         Faulted(returned[k]) =>
            /\ DOMAIN returned[k].response = {"error", "fallback"}
            /\ returned[k].response.error = returned[k].result.msg
            /\ returned[k].response.fallback # ""
            /\ Growth(returned[k]) = 512
    /\ (pc = "finally" /\ Faulted([result |-> result])) =>
            /\ response.error = result.msg
            /\ total_tokens_used = call.entry_tokens + 512

\* A call has returned after its Subagent's execute raised a fault.
C7_Witness ==
    \E k \in Calls :
        /\ Faulted(returned[k])
        /\ returned[k].result.msg = "backend unavailable"

IsError(rec) == rec.branch \in {"timeout", "fault"}

\* C8 as claimed: every response process_request returns, in each of the five
\* variants, carries a handler label and a token-usage figure, and the error
\* variants carry a fallback text in place of a result body.
C8_EveryResponseHasHandlerAndTokens ==
    \A k \in Calls :
        /\ {"handler", "tokens_used"} \subseteq DOMAIN returned[k].response
        /\ IsError(returned[k]) =>
              /\ "fallback" \in DOMAIN returned[k].response
              /\ DOMAIN returned[k].response \cap {"result", "response"} = {}

\* C8 as amended: the three non-error variants carry a handler label and a
\* token-usage figure; the two error variants carry an error message and a
\* fallback text in place of a result body, and neither a handler label nor a
\* token-usage figure.
C8_ResponseShapes ==
    \A k \in Calls :
        /\ ~IsError(returned[k]) =>
              /\ {"handler", "tokens_used"} \subseteq DOMAIN returned[k].response
              /\ returned[k].response.handler # ""
              /\ returned[k].response.tokens_used \in Nat
              /\ DOMAIN returned[k].response \cap {"error", "fallback"} = {}
        /\ IsError(returned[k]) =>
              /\ {"error", "fallback"} \subseteq DOMAIN returned[k].response
              /\ returned[k].response.fallback # ""
              /\ DOMAIN returned[k].response
                    \cap {"handler", "tokens_used", "result", "response"} = {}

\* An error response and a non-error response have been returned.
C8_Witness ==
    \E j, k \in Calls :
        /\ returned[j].branch = "timeout"
        /\ returned[k].branch \in {"inline", "unknown", "success"}

\* The categories whose keyword list has a word inside the lower-cased message.
KeywordsOf(c) ==
    CASE c = "finance" -> FinanceWords
      [] c = "developer" -> DeveloperWords
      [] c = "content" -> ContentWords
      [] c = "simple" -> SimpleWords

MatchedCategories(message) ==
    { c \in {"finance", "developer", "content", "simple"} :
        \E k \in 1..Len(KeywordsOf(c)) : Contains(lower(message), KeywordsOf(c)[k]) }

Priority == <<"finance", "developer", "content", "simple">>

\* The earliest category of the priority order that is matched.
EarliestMatched(matched) ==
    LET first == CHOOSE n \in 1..Len(Priority) :
                    /\ Priority[n] \in matched
                    /\ \A m \in 1..(n - 1) : Priority[m] \notin matched
    IN Priority[first]

\* C9: _classify_task returns one category, decided by the keyword sets the
\* lower-cased message matches: the earliest matched set in the order finance,
\* developer, content, inline greeting wins, and a message that matches none
\* yields "unknown".
C9_ClassifyByPriority ==
    pc = "classified" =>
        LET matched == MatchedCategories(user_message) IN
        /\ task_type \in {"finance", "developer", "content", "simple", "unknown"}
        /\ task_type = IF matched = {} THEN "unknown" ELSE EarliestMatched(matched)

\* A classified message that matches developer and finance keywords, the
\* developer word first in the text and in upper case.
C9_Witness ==
    /\ pc = "classified"
    /\ {"finance", "developer"} \subseteq MatchedCategories(user_message)
    /\ SubSeq(user_message, 1, 6) = <<"C","o","m","m","i","t">>
    /\ task_type = "finance"

\* The Subagent objects created so far are those of the calls routed to a
\* specialist: one per such call, none for any other call.
DispatchedCalls == { k \in Calls : SubagentOf(k) # 0 }
InFlight == IF pc \in {"try", "success", "except_timeout", "except_exception", "finally"}
            THEN 1 ELSE 0

\* C10: a request that matches no keyword set gets the unknown response,
\* handler "main_agent", token figure 712, and a greeting gets the inline
\* response, handler "main_agent", token figure 612; no Subagent is created,
\* executed or terminated during such a call: a Subagent is created only when
\* the category is a registered specialist id.
C10_NoSubagentOffSpecialistPath ==
    /\ \A k \in Calls :
         /\ MatchedCategories(returned[k].user_message) = {} =>
               /\ returned[k].branch = "unknown"
               /\ returned[k].response.handler = "main_agent"
               /\ returned[k].response.tokens_used = 712
               /\ SubagentOf(k) = 0
         /\ returned[k].task_type = "simple" =>
               /\ returned[k].branch = "inline"
               /\ returned[k].response.handler = "main_agent"
               /\ returned[k].response.tokens_used = 612
               /\ SubagentOf(k) = 0
         /\ SubagentOf(k) # 0 => returned[k].task_type \in DOMAIN SUBAGENT_TEMPLATES
    /\ Len(subagents) = Cardinality(DispatchedCalls) + InFlight
    /\ \A j, k \in DispatchedCalls : j # k => SubagentOf(j) # SubagentOf(k)
    /\ \A i \in DOMAIN subagents : trace[i].n_execute <= 1 /\ trace[i].n_terminate <= 1
    /\ pc \in {"handle_simple", "handle_unknown"} => subagent = 0

\* An unknown request and a greeting have both been answered.
C10_Witness ==
    \E j, k \in Calls :
        /\ MatchedCategories(returned[j].user_message) = {}
        /\ returned[k].task_type = "simple"


\* The token figure of a non-error response, by category alone.
FigureOf(category) ==
    CASE category = "simple" -> 612
      [] category = "unknown" -> 712
      [] category = "finance" -> 3012
      [] category = "developer" -> 4512
      [] category = "content" -> 2512

\* C11: for every process_request call that ends in a non-error response, the
\* token figure of the response is what the call added to the cumulative
\* counter and depends on the category alone, not on earlier calls: 612
\* inline, 712 unknown, 512 + budget // 2 for a specialist (3012 for finance),
\* whose handler label is the category followed by "_subagent".
C11_FigureIsGrowth ==
    \A k \in Calls :
        ~IsError(returned[k]) =>
            /\ returned[k].response.tokens_used = Growth(returned[k])
            /\ returned[k].response.tokens_used = FigureOf(returned[k].task_type)
            /\ returned[k].branch = "success" =>
                  /\ returned[k].response.handler = returned[k].task_type \o "_subagent"
                  /\ returned[k].response.tokens_used
                        = 512 + subagents[SubagentOf(k)].context.max_tokens \div 2

\* A finance dispatch that succeeded after an earlier call had already
\* charged the counter.
C11_Witness ==
    \E k \in Calls :
        /\ returned[k].entry_tokens > 0
        /\ returned[k].branch = "success"
        /\ returned[k].response.handler = "finance_subagent"
        /\ returned[k].response.tokens_used = 3012


\* C12: no retries.  Each process_request call creates at most one Subagent
\* and calls execute on it at most once; after a timeout or a fault the call
\* returns the error response with no second execute and no second Subagent;
\* and a Subagent created by one call is not executed by a later call.
C12_NoRetry ==
    /\ \A i \in DOMAIN subagents : trace[i].n_execute <= 1
    /\ \A k \in Calls :
         IsError(returned[k]) =>
            /\ trace[SubagentOf(k)].n_execute = 1
            /\ trace[SubagentOf(k)].last.op = "terminate"
    /\ \A j, k \in Calls :
         (j < k /\ SubagentOf(j) # 0) => SubagentOf(j) < SubagentOf(k) \/ SubagentOf(k) = 0
    /\ Len(subagents) <= Len(returned) + InFlight
    /\ pc \in {"try", "success", "except_timeout", "except_exception", "finally"} =>
         /\ subagent = Len(subagents)
         /\ \A k \in Calls : SubagentOf(k) # subagent

\* Two dispatches have returned, the first after a timeout: each Subagent was
\* executed once.
C12_Witness ==
    \E j, k \in Calls :
        /\ j < k
        /\ returned[j].branch = "timeout"
        /\ SubagentOf(k) # 0
        /\ trace[SubagentOf(j)].n_execute = 1
        /\ trace[SubagentOf(k)].n_execute = 1


IsTimeout(outcome) == outcome.kind = "raise" /\ outcome.type = "TimeoutError"

\* C13 as claimed: execute fails with TimeoutError exactly when the time
\* elapsed since the Subagent's creation is strictly greater than the timeout
\* at the call; a timed-out execute produces no result; a Subagent created 31
\* seconds before execute(timeout=30) always times out.
C13_TimeoutIffElapsed ==
    \A i \in DOMAIN subagents :
        Last(i).op = "execute" =>
            /\ IsTimeout(Last(i).outcome) <=> Last(i).elapsed > Last(i).timeout
            /\ IsTimeout(Last(i).outcome) => Last(i).outcome.value = NoValue
            /\ (Last(i).elapsed = 31 /\ Last(i).timeout = 30) => IsTimeout(Last(i).outcome)

\* C13 as amended: the same, for an execute on a Subagent that has not been
\* terminated (on a terminated one execute fails with RuntimeError before the
\* elapsed time is looked at).
C13_TimeoutIffElapsedUnlessTerminated ==
    \A i \in DOMAIN subagents :
        (Last(i).op = "execute" /\ ~Last(i).before_terminated) =>
            /\ IsTimeout(Last(i).outcome) <=> Last(i).elapsed > Last(i).timeout
            /\ IsTimeout(Last(i).outcome) => Last(i).outcome.value = NoValue
            /\ (Last(i).elapsed = 31 /\ Last(i).timeout = 30) => IsTimeout(Last(i).outcome)

\* execute(timeout=30) on a live Subagent created 31 seconds earlier.
C13_Witness ==
    \E i \in DOMAIN subagents :
        /\ Last(i).op = "execute"
        /\ ~Last(i).before_terminated
        /\ Last(i).elapsed = 31
        /\ Last(i).timeout = 30
        /\ IsTimeout(Last(i).outcome)


\* C14: a successful execute has no side effect on the Subagent: the
\* termination flag, the creation timestamp and the context are as before,
\* and the record returned has the context's role and task, tokens_used =
\* max_tokens // 2 and completed = true; only terminate() changes the
\* termination flag.
C14_ExecuteHasNoSideEffect ==
    \A i \in DOMAIN subagents :
        /\ (Last(i).op = "execute" /\ Last(i).outcome.kind = "return") =>
              /\ Last(i).unchanged
              /\ subagents[i].is_terminated = Last(i).before_terminated
              /\ Last(i).outcome.value.role = subagents[i].context.role
              /\ Last(i).outcome.value.task = subagents[i].context.task
              /\ Last(i).outcome.value.tokens_used = subagents[i].context.max_tokens \div 2
              /\ Last(i).outcome.value.completed = TRUE
        /\ Last(i).op = "execute" => subagents[i].is_terminated = Last(i).before_terminated
        /\ subagents[i].is_terminated => trace[i].n_terminate >= 1

\* A successful execute on a Subagent that nobody has terminated.
C14_Witness ==
    \E i \in DOMAIN subagents :
        /\ Last(i).op = "execute"
        /\ Last(i).outcome.kind = "return"
        /\ Last(i).outcome.value.tokens_used = 2500
        /\ trace[i].n_terminate = 0
        /\ ~subagents[i].is_terminated


\* C15: the cumulative token counter starts at 0 and never decreases over
\* any sequence of process_request and get_stats calls; every process_request
\* call, also one that ends in an error response, has increased it by at
\* least the base charge when it returns; get_stats leaves it unchanged and
\* returns its current value.
C15_CounterMonotonic ==
    /\ total_tokens_used = 0
    /\ [][ /\ total_tokens_used' >= total_tokens_used
           /\ Len(returned') > Len(returned) =>
                 /\ returned'[Len(returned')].entry_tokens + 512 <= total_tokens_used'
                 /\ returned'[Len(returned')].exit_tokens = total_tokens_used'
           /\ (pc = "idle" /\ pc' # "idle") => call'.entry_tokens = total_tokens_used
           /\ (stats' # stats /\ stats' # NoStats) =>
                 /\ total_tokens_used' = total_tokens_used
                 /\ stats'.total_tokens_used = total_tokens_used
         ]_vars

\* get_stats has been called after two calls, one of which ended in an error.
C15_Witness ==
    /\ stats # NoStats
    /\ Len(returned) = 2
    /\ \E k \in Calls : IsError(returned[k])
    /\ stats.total_tokens_used = total_tokens_used
    /\ total_tokens_used >= 1024


\* The identifiers in a list of data sources.
SourcesOf(category) ==
    { SUBAGENT_TEMPLATES[category].data_sources[n] :
        n \in 1..Len(SUBAGENT_TEMPLATES[category].data_sources) }

\* The context is the one built for this category and this request text.
ContextFits(context, category, text) ==
    /\ context.role = SUBAGENT_TEMPLATES[category].role
    /\ context.instructions = SUBAGENT_TEMPLATES[category].instructions
    /\ context.max_tokens = SUBAGENT_TEMPLATES[category].max_tokens
    /\ context.task = text
    /\ DOMAIN context.data = SourcesOf(category)
    /\ \A id \in SourcesOf(category) : context.data[id] # ""
    /\ \A other \in DOMAIN SUBAGENT_TEMPLATES \ {category} :
          DOMAIN context.data \cap SourcesOf(other) = {}

\* C17: for every specialist dispatch the context handed to the Subagent
\* carries the role, instruction text and token budget of the profile of the
\* classified category and the request text as task, and the keys of its data
\* mapping are exactly the profile's data-source identifiers, each with
\* content, none of them an identifier of another category's profile.
C17_ContextFromProfile ==
    /\ \A k \in DispatchedCalls :
         ContextFits(subagents[SubagentOf(k)].context,
                     _classify_task(returned[k].user_message), returned[k].user_message)
    /\ InFlight = 1 =>
         ContextFits(subagents[subagent].context, task_type, user_message)

\* A developer dispatch has returned; its Subagent held the two developer
\* data sources.
C17_Witness ==
    \E k \in DispatchedCalls :
        /\ returned[k].task_type = "developer"
        /\ DOMAIN subagents[SubagentOf(k)].context.data = {"git_log", "open_issues"}
        /\ subagents[SubagentOf(k)].context.max_tokens = 8000


\* C20: within every specialist dispatch the events come in the order
\* create, execute, terminate, return: execute is called on a Subagent that
\* is not yet terminated, so "Subagent already terminated" never arises on
\* the coordinator's path, and whenever process_request has returned, with a
\* response that reports subagent_terminated = true or with an error
\* response, the Subagent it created is terminated.
C20_CreateExecuteTerminateReturn ==
    /\ \A i \in DOMAIN subagents :
         /\ Last(i).op = "execute" =>
               /\ ~Last(i).before_terminated
               /\ ~AlreadyTerminated(Last(i).outcome)
         /\ Last(i).op = "terminate" =>
               /\ Last(i).executes_before = 1
               /\ ~Last(i).before_terminated
         /\ subagents[i].is_terminated => trace[i].n_execute = 1
    /\ \A k \in DispatchedCalls :
         /\ subagents[SubagentOf(k)].is_terminated
         /\ Last(SubagentOf(k)).op = "terminate"
         /\ ~AlreadyTerminated(returned[k].result)
         /\ IF IsError(returned[k])
            THEN "error" \in DOMAIN returned[k].response
            ELSE returned[k].response.subagent_terminated = TRUE
    /\ pc = "try" => Last(subagent).op = "init" /\ ~subagents[subagent].is_terminated
    /\ pc \in {"success", "except_timeout", "except_exception", "finally"} =>
         /\ Last(subagent).op = "execute"
         /\ ~subagents[subagent].is_terminated
         /\ \A k \in Calls : SubagentOf(k) # subagent

\* A dispatch that reported subagent_terminated = true and one that returned
\* an error have both returned, their Subagents terminated.
C20_Witness ==
    \E j, k \in DispatchedCalls :
        /\ returned[j].branch = "success"
        /\ returned[j].response.subagent_terminated = TRUE
        /\ returned[k].branch = "fault"
        /\ subagents[SubagentOf(j)].is_terminated
        /\ subagents[SubagentOf(k)].is_terminated


\* The calls whose category has no profile in the registry.
Absent(rec) == rec.task_type # "simple" /\ rec.task_type \notin DOMAIN registry

\* C16: when the category the classifier returned has no profile in the
\* registry, process_request treats it as a classification miss and not a
\* fault: it returns the unknown response with the charge 512 + 200, creates no
\* Subagent, and no exception leaves the call.
C16_AbsentIsMiss ==
    /\ pc # "raised"
    /\ \A k \in Calls :
         Absent(returned[k]) =>
            /\ returned[k].branch = "unknown"
            /\ returned[k].response = UnknownResponse(returned[k].user_message)
            /\ returned[k].response.tokens_used = 712
            /\ Growth(returned[k]) = 712
            /\ SubagentOf(k) = 0
    /\ Len(subagents) = Cardinality(DispatchedCalls) + InFlight
    /\ (pc \in {"handle_unknown", "handle_with_subagent"} /\
           task_type \notin DOMAIN registry) => pc = "handle_unknown"

\* A request classified "content" has returned while the registry holds no
\* "content" profile.
C16_Witness ==
    /\ "content" \notin DOMAIN registry
    /\ \E k \in Calls :
         /\ returned[k].task_type = "content"
         /\ returned[k].branch = "unknown"


\* The categories of the registry that the reference registry does not have.
AddedCategories == DOMAIN registry \ DOMAIN SUBAGENT_TEMPLATES

\* C19: the registry is extensible without code change elsewhere: for a
\* category added to SUBAGENT_TEMPLATES with its profile, nothing else changed,
\* there is a request that process_request dispatches to a Subagent built from
\* the new profile.
C19_AddedCategoryIsDispatched ==
    \A c \in AddedCategories :
        \E m \in Inputs :
            /\ _classify_task(m) = c
            /\ Route(_classify_task(m)) = "handle_with_subagent"
            /\ BuildContext(c, m).role = registry[c].role


\* What the two callers have added between them, and whether both have returned.
BothCharges == threads["t1"].charged + threads["t2"].charged
BothReturned == \A t \in Threads : threads[t].pc = "done"

\* C18: when two process_request calls run at the same time on one
\* CoordinatorAgent, the increments of the cumulative token counter are
\* serialized: under every interleaving of the two calls' read and write steps
\* the final counter is the initial value plus the charges of both calls, no
\* increment is lost.
C18_NoLostIncrement ==
    BothReturned => total_tokens_used = 0 + BothCharges

====
